---- MODULE Spec2Model ----
(***************************************************************************)
(* Model of langextract_samples: the dataset registry (datasets.py), the   *)
(* runner (runner.py: run_dataset, save_artifacts, _parse_artifact_metadata,*)
(* _update_outputs_index, _ensure_comparison_viewer, run_cli) and the      *)
(* entry points of examples_cli.py.                                        *)
(*                                                                         *)
(* Python strings that the code takes apart (dataset keys, model ids,      *)
(* artifact prefixes) are sequences of one-character strings.  Texts that  *)
(* the code only passes along are TLA+ strings.  An Optional value is a    *)
(* sequence of length 0 (None) or 1 (the value).                           *)
(***************************************************************************)
EXTENDS Integers, Sequences, FiniteSets, TLC

VARIABLES
    pc,           \* position of the running call
    call,         \* inputs of the running call (function arguments or argv)
    ret,          \* what a directly called function returned or raised
    dir_exists,   \* the output directory exists
    files,        \* output directory: file name -> what was written there
    index_html,   \* content of index.html as last written
    comparison_html, \* manifest embedded in comparison.html as last written
    idx,          \* run_cli: position in dataset_keys
    extract_calls,\* run_cli: lx.extract calls made by this invocation
    stdout,       \* run_cli: lines printed by this invocation
    events,       \* run_cli: steps taken by this invocation, in order
    history,      \* artifacts written by all invocations so far
    invocations   \* number of run_cli invocations started so far

vars == <<pc, call, ret, dir_exists, files, index_html, comparison_html,
          idx, extract_calls, stdout, events, history, invocations>>

---------------------------------------------------------------------------
(* Bounds of the model. *)

\* longest model id enumerated for the direct calls of the pure functions
MaxModelLen == 3
\* largest pass count enumerated for the direct calls of the pure functions
MaxPasses == 11
\* largest value of --extraction-passes enumerated
MaxCliPasses == 2
\* number of successive run_cli invocations on the same output directory
MaxInvocations == 2
\* largest number of files placed in the directory before an index rebuild
MaxDirFiles == 3
\* most rebuilds of the index of one directory
MaxRebuilds == 3
\* longest result handed to _relationship_summary
MaxExtractions == 3

---------------------------------------------------------------------------
(* Optional values and Python truthiness. *)

None == <<>>
Some(x) == <<x>>
\* truthiness of an Optional[str] whose value is a sequence or a TLA+ string
TruthySeq(o) == o # <<>> /\ o[1] # <<>>
TruthyText(o) == o # <<>> /\ o[1] # ""
\* truthiness of an Optional[int]
TruthyInt(o) == o # <<>> /\ o[1] # 0

---------------------------------------------------------------------------
(* Strings as character sequences. *)

Str_romeo_quickstart ==
    <<"r","o","m","e","o","_","q","u","i","c","k","s","t","a","r","t">>
Str_medication_ner ==
    <<"m","e","d","i","c","a","t","i","o","n","_","n","e","r">>
Str_medication_relationship ==
    <<"m","e","d","i","c","a","t","i","o","n","_",
      "r","e","l","a","t","i","o","n","s","h","i","p">>
Str_gemini_flash_lite ==
    <<"g","e","m","i","n","i","-","2",".","5","-","f","l","a","s","h","-","l","i","t","e">>
Str_gemini_pro ==
    <<"g","e","m","i","n","i","-","2",".","5","-","p","r","o">>
Str_x == <<"x">>
Str_unknown == <<"u","n","k","n","o","w","n">>
Str_pass == <<"p","a","s","s">>
Str_sep == <<"_","_">>

\* str.replace(old, new) for single characters
ReplaceChar(s, old, new) ==
    [i \in 1..Len(s) |-> IF s[i] = old THEN new ELSE s[i]]

\* str.startswith
StartsWith(s, p) ==
    Len(s) >= Len(p) /\ SubSeq(s, 1, Len(p)) = p

\* first index at which pattern p occurs in s, 0 when it does not occur
FindFirst(s, p) ==
    LET hits == {i \in 1..(Len(s) - Len(p) + 1) : SubSeq(s, i, i + Len(p) - 1) = p}
    IN IF hits = {} THEN 0 ELSE CHOOSE i \in hits : \A j \in hits : i <= j

\* str.split(sep): left to right, non-overlapping, empty parts kept
RECURSIVE Split(_, _)
Split(s, sep) ==
    LET i == FindFirst(s, sep)
    IN IF i = 0 THEN <<s>>
       ELSE <<SubSeq(s, 1, i - 1)>> \o Split(SubSeq(s, i + Len(sep), Len(s)), sep)

\* str.replace(p, ""): every non-overlapping occurrence removed, left to right
RECURSIVE RemoveAll(_, _)
RemoveAll(s, p) ==
    LET i == FindFirst(s, p)
    IN IF i = 0 THEN s
       ELSE SubSeq(s, 1, i - 1) \o RemoveAll(SubSeq(s, i + Len(p), Len(s)), p)

Digit(d) == CASE d = 0 -> "0" [] d = 1 -> "1" [] d = 2 -> "2" [] d = 3 -> "3"
              [] d = 4 -> "4" [] d = 5 -> "5" [] d = 6 -> "6" [] d = 7 -> "7"
              [] d = 8 -> "8" [] d = 9 -> "9"

\* str(n) of a non-negative int
RECURSIVE NatToStr(_)
NatToStr(n) ==
    IF n < 10 THEN <<Digit(n)>> ELSE NatToStr(n \div 10) \o <<Digit(n % 10)>>

\* str(n) of an int, as the f-string of run_dataset formats it
IntToStr(n) == IF n < 0 THEN <<"-">> \o NatToStr(0 - n) ELSE NatToStr(n)

---------------------------------------------------------------------------
(* datasets.py: the registry. *)

\* DatasetConfig has no extraction_passes field (datasets.py:17-29)
DATASETS ==
    (Str_romeo_quickstart :>
        [key |-> Str_romeo_quickstart,
         title |-> "Romeo & Juliet Quick Start",
         default_input_text |-> "Lady Juliet gazed longingly at the stars, her heart aching for Romeo.",
         default_model_id |-> Str_gemini_flash_lite,
         artifact_prefix |-> "romeo_juliet_basic",
         summary_fn |-> "_basic_summary"])
    @@ (Str_medication_ner :>
        [key |-> Str_medication_ner,
         title |-> "Medication Named Entity Recognition",
         default_input_text |-> "Patient took 400 mg PO Ibuprofen q4h for two days.",
         default_model_id |-> Str_gemini_pro,
         artifact_prefix |-> "medication_ner",
         summary_fn |-> "_basic_summary"])
    @@ (Str_medication_relationship :>
        [key |-> Str_medication_relationship,
         title |-> "Medication Relationship Extraction",
         default_input_text |-> "DEFAULT_REL_INPUT",
         default_model_id |-> Str_gemini_pro,
         artifact_prefix |-> "medication_relationship",
         summary_fn |-> "_relationship_summary"])

\* a config returned for a key that is not registered (a dict.get default)
get_dataset_default(key) ==
    IF key \in DOMAIN DATASETS
    THEN [raised |-> "", value |-> Some(DATASETS[key])]
    ELSE [raised |-> "", value |-> Some(DATASETS[Str_romeo_quickstart])]

\* get_dataset: the config, or KeyError
get_dataset(key) ==
    IF key \notin DOMAIN DATASETS
    THEN [raised |-> "KeyError", value |-> None]
    ELSE [raised |-> "", value |-> Some(DATASETS[key])]

\* list_dataset_keys: the keys in insertion order
list_dataset_keys ==
    <<Str_romeo_quickstart, Str_medication_ner, Str_medication_relationship>>

---------------------------------------------------------------------------
(* runner.py: artifact prefix and its parsing. *)

\* only "/" is replaced
friendly_model_slash_only(model_id) == ReplaceChar(model_id, "/", "_")

\* runner.py:57
friendly_model(model_id) ==
    ReplaceChar(ReplaceChar(model_id, "/", "_"), ":", "_")

\* runner.py:58
artifact_prefix(dataset_key, model_id, extraction_passes) ==
    dataset_key \o Str_sep \o friendly_model(model_id) \o Str_sep
        \o Str_pass \o IntToStr(extraction_passes)

\* runner.py:62-74
_parse_artifact_metadata(prefix) ==
    LET parts == Split(prefix, Str_sep)
        dataset_name == parts[1]
        model_name == IF Len(parts) > 1 THEN parts[2] ELSE <<>>
        pass_part == IF Len(parts) > 2 THEN parts[3] ELSE <<>>
        pass_count == IF StartsWith(pass_part, Str_pass)
                      THEN RemoveAll(pass_part, Str_pass) ELSE <<>>
    IN [dataset |-> dataset_name,
        model |-> ReplaceChar(model_name, "_", " "),
        passes |-> IF pass_count # <<>> THEN pass_count ELSE <<"1">>,
        prefix |-> prefix]

---------------------------------------------------------------------------
(* examples_cli.py and the *_example.py scripts: the entry points. *)

Entries == {"main", "romeo_main", "medication_ner_main", "medication_relationship_main"}

\* the dataset_key each entry point passes to _run_for_dataset
entry_dataset_key(entry) ==
    CASE entry = "main" -> None
      [] entry = "romeo_main" -> Some(Str_romeo_quickstart)
      [] entry = "medication_ner_main" -> Some(Str_medication_ner)
      [] entry = "medication_relationship_main" -> Some(Str_medication_relationship)

\* _run_for_dataset: allowed = [dataset_key] if dataset_key else None
allowed_dataset_keys(entry) ==
    IF TruthySeq(entry_dataset_key(entry))
    THEN Some(<<entry_dataset_key(entry)[1]>>)
    ELSE None

\* _run_for_dataset: default_dataset_key = dataset_key
default_dataset_key(entry) == entry_dataset_key(entry)

---------------------------------------------------------------------------
(* runner.py: run_cli, up to the loop over the datasets. *)

\* a text file named by --input-file: its content, or None when it cannot be read
FileContent(path) ==
    CASE path = "empty.txt" -> Some("")
      [] path = "note.txt" -> Some("text of note.txt")
      [] path = "missing.txt" -> None

\* runner.py:577
available(argv) ==
    IF TruthySeq(allowed_dataset_keys(argv.entry))
    THEN allowed_dataset_keys(argv.entry)[1]
    ELSE list_dataset_keys

\* runner.py:578-586: SystemExit when nothing is registered or the default
\* key is not among the available ones
registry_exit(argv) ==
    LET dflt == IF default_dataset_key(argv.entry) = None
                THEN available(argv)[1]
                ELSE default_dataset_key(argv.entry)[1]
    IN IF available(argv) = <<>> THEN TRUE
       ELSE ~(\E i \in 1..Len(available(argv)) : available(argv)[i] = dflt)

\* runner.py:591
needs_dataset_arg(argv) == Len(available(argv)) > 1

\* argparse rejects arguments it was not told about (runner.py:593-605, 635)
unrecognized_arguments(argv) ==
    ~needs_dataset_arg(argv) /\ (argv.dataset_key # None \/ argv.dataset # None)

\* the check of runner.py:646 with the comparison left out
dataset_args_mismatch_never(argv) == FALSE

\* runner.py:646
dataset_args_mismatch(argv) ==
    /\ needs_dataset_arg(argv)
    /\ TruthySeq(argv.dataset) /\ TruthySeq(argv.dataset_key)
    /\ argv.dataset # argv.dataset_key

\* runner.py:643-651
selected_dataset(argv) ==
    IF needs_dataset_arg(argv)
    THEN (IF TruthySeq(argv.dataset) THEN argv.dataset ELSE argv.dataset_key)
    ELSE None

\* runner.py:652-656
dataset_keys(argv) ==
    IF TruthySeq(selected_dataset(argv))
    THEN <<selected_dataset(argv)[1]>>
    ELSE available(argv)

\* runner.py:658-662, for a readable --input-file
input_text_override(argv) ==
    IF argv.input_file # None
    THEN FileContent(argv.input_file[1])
    ELSE IF TruthyText(argv.input_text) THEN argv.input_text ELSE None

\* runner.py:664
multiple(argv) == Len(dataset_keys(argv)) > 1

\* the model id is always the dataset's default
model_id_default_only(argv, config) == config.default_model_id

\* runner.py:667
model_id_of(argv, config) ==
    IF TruthySeq(argv.model_id) THEN argv.model_id[1] ELSE config.default_model_id

\* runner.py:668
input_text_of(argv, config) ==
    IF TruthyText(input_text_override(argv))
    THEN input_text_override(argv)[1]
    ELSE config.default_input_text

\* runner.py:669: args.extraction_passes or config.extraction_passes; the
\* right-hand side reads a field DatasetConfig does not have
extraction_passes_of(argv, config) ==
    IF TruthyInt(argv.extraction_passes)
    THEN [raised |-> "", value |-> argv.extraction_passes[1]]
    ELSE IF "extraction_passes" \in DOMAIN config
         THEN [raised |-> "", value |-> config["extraction_passes"]]
         ELSE [raised |-> "AttributeError", value |-> 0]

---------------------------------------------------------------------------
(* Python comparisons and conversions used by the index builder. *)

\* the characters of the model in code point order
CharsInOrder ==
    <<" ", "+", "-", ".", "/", "0", "1", "2", "3", "4", "5", "6", "7", "8", "9",
      ":", "_", "a", "b", "c", "d", "e", "f", "g", "h", "i", "j", "k", "l", "m",
      "n", "o", "p", "q", "r", "s", "t", "u", "v", "w", "x", "y", "z">>
CharCode(c) == CHOOSE i \in 1..Len(CharsInOrder) : CharsInOrder[i] = c

\* str < str: lexicographic by code point
RECURSIVE StrLess(_, _)
StrLess(a, b) ==
    IF b = <<>> THEN FALSE
    ELSE IF a = <<>> THEN TRUE
    ELSE IF a[1] # b[1] THEN CharCode(a[1]) < CharCode(b[1])
    ELSE StrLess(Tail(a), Tail(b))

DigitChars == {"0", "1", "2", "3", "4", "5", "6", "7", "8", "9"}
DigitValue(c) == CharCode(c) - CharCode("0")

\* str.strip() for blanks
RECURSIVE StripBlanks(_)
StripBlanks(s) ==
    IF s = <<>> THEN s
    ELSE IF s[1] = " " THEN StripBlanks(Tail(s))
    ELSE IF s[Len(s)] = " " THEN StripBlanks(SubSeq(s, 1, Len(s) - 1))
    ELSE s

\* the digits of an int literal: digits, single underscores between digits
IsDigitGroup(s) ==
    /\ s # <<>>
    /\ s[1] \in DigitChars /\ s[Len(s)] \in DigitChars
    /\ \A i \in 1..Len(s) : s[i] \in DigitChars \cup {"_"}
    /\ \A i \in 1..(Len(s) - 1) : ~(s[i] = "_" /\ s[i + 1] = "_")

RECURSIVE DigitsValue(_, _)
DigitsValue(s, acc) ==
    IF s = <<>> THEN acc
    ELSE IF s[1] = "_" THEN DigitsValue(Tail(s), acc)
    ELSE DigitsValue(Tail(s), acc * 10 + DigitValue(s[1]))

\* int(s): the value, or ValueError
PyInt(s) ==
    LET t == StripBlanks(s)
        signed == t # <<>> /\ t[1] \in {"+", "-"}
        body == IF signed THEN Tail(t) ELSE t
    IN IF IsDigitGroup(body)
       THEN [raised |-> "",
             value |-> IF signed /\ t[1] = "-" THEN 0 - DigitsValue(body, 0)
                       ELSE DigitsValue(body, 0)]
       ELSE [raised |-> "ValueError", value |-> 0]

\* sorted(seq, key=...), less[x, y] being key(x) < key(y): the one
\* rearrangement that is ascending and keeps equal keys in their given order
SortedStable(seq, less) ==
    LET n == Len(seq)
        p == CHOOSE q \in [1..n -> 1..n] :
                /\ \A i, j \in 1..n : q[i] = q[j] => i = j
                /\ \A i, j \in 1..n : i < j =>
                      /\ ~less[seq[q[j]], seq[q[i]]]
                      /\ (~less[seq[q[i]], seq[q[j]]] => q[i] < q[j])
    IN [i \in 1..n |-> seq[p[i]]]

\* the elements of a sequence
Range(seq) == {seq[i] : i \in 1..Len(seq)}

\* the orders in which a set can be listed
Orders(S) ==
    {f \in [1..Cardinality(S) -> S] : \A i, j \in 1..Cardinality(S) : f[i] = f[j] => i = j}

---------------------------------------------------------------------------
(* runner.py: _update_outputs_index and _ensure_comparison_viewer. *)

FileName(stem, suffix) == [stem |-> stem, suffix |-> suffix]
Page_index == FileName(<<"i","n","d","e","x">>, ".html")
Page_jsonl_viewer == FileName(<<"j","s","o","n","l","_","v","i","e","w","e","r">>, ".html")
Page_comparison == FileName(<<"c","o","m","p","a","r","i","s","o","n">>, ".html")
GeneratedPages == {Page_index, Page_jsonl_viewer, Page_comparison}

\* a file written by _update_outputs_index, and a file of unknown origin
PageContent == [is_file |-> TRUE, by |-> None]

\* path.suffix.lower()
LowerSuffix(suffix) ==
    CASE suffix = ".JSONL" -> ".jsonl"
      [] suffix = ".HTML" -> ".html"
      [] OTHER -> suffix

\* index.html is not skipped
artifact_names_with_index(dir) ==
    {n \in DOMAIN dir :
        /\ dir[n].is_file
        /\ n \notin {Page_jsonl_viewer, Page_comparison}
        /\ LowerSuffix(n.suffix) \in {".jsonl", ".html"}}

\* only the .html files are taken
artifact_names_html_only(dir) ==
    {n \in DOMAIN dir :
        /\ dir[n].is_file
        /\ n \notin GeneratedPages
        /\ LowerSuffix(n.suffix) = ".html"}

\* runner.py:266-273: the directory entries that are taken as artifacts
artifact_names(dir) ==
    {n \in DOMAIN dir :
        /\ dir[n].is_file
        /\ n \notin GeneratedPages
        /\ LowerSuffix(n.suffix) \in {".jsonl", ".html"}}

artifact_stems(dir) == {n.stem : n \in artifact_names(dir)}

\* the names iterdir can yield last for a stem and a suffix
names_for(dir, stem, suffix) ==
    {n \in artifact_names(dir) : n.stem = stem /\ LowerSuffix(n.suffix) = suffix}

\* the ways runner.py:275-286 can fill the jsonl (or html) field of every entry
name_choices(dir, suffix) ==
    {f \in [artifact_stems(dir) -> {None} \cup {Some(n) : n \in artifact_names(dir)}] :
        \A st \in artifact_stems(dir) :
            IF names_for(dir, st, suffix) = {} THEN f[st] = None
            ELSE f[st] # None /\ f[st][1] \in names_for(dir, st, suffix)}

\* item["metadata"] or _parse_artifact_metadata(item["dataset"]): both are
\* the parse of the stem (runner.py:281, 293, 304, 373)
entry_meta(stem) == _parse_artifact_metadata(stem)

\* the pass counts are compared as text, not as integers
index_key_less_text(s1, s2) ==
    LET m1 == entry_meta(s1)
        m2 == entry_meta(s2)
    IN \/ StrLess(m1.dataset, m2.dataset)
       \/ /\ m1.dataset = m2.dataset
          /\ \/ StrLess(m1.model, m2.model)
             \/ m1.model = m2.model /\ StrLess(m1.passes, m2.passes)

\* runner.py:292-300: the sort key of the index rows, compared
index_key_less(s1, s2) ==
    LET m1 == entry_meta(s1)
        m2 == entry_meta(s2)
    IN \/ StrLess(m1.dataset, m2.dataset)
       \/ /\ m1.dataset = m2.dataset
          /\ \/ StrLess(m1.model, m2.model)
             \/ m1.model = m2.model /\ PyInt(m1.passes).value < PyInt(m2.passes).value

\* runner.py:388: the sort key of the runs of one dataset, compared
run_key_less(s1, s2) ==
    LET m1 == entry_meta(s1)
        m2 == entry_meta(s2)
    IN \/ StrLess(m1.model, m2.model)
       \/ m1.model = m2.model /\ PyInt(m1.passes).value < PyInt(m2.passes).value

\* runner.py:303-327: one table row
index_row(stem, jsonl, html) ==
    [dataset |-> entry_meta(stem).dataset,
     model |-> entry_meta(stem).model,
     passes |-> entry_meta(stem).passes,
     jsonl |-> jsonl[stem],
     html |-> html[stem]]

\* a stem gets a row only when it has both files
index_rows_paired_only(ins, jsonl, html) ==
    LET paired == SelectSeq(ins, LAMBDA st : jsonl[st] # None /\ html[st] # None)
        sorted_entries ==
            SortedStable(paired, [x \in Range(ins), y \in Range(ins) |-> index_key_less(x, y)])
    IN [i \in 1..Len(sorted_entries) |-> index_row(sorted_entries[i], jsonl, html)]

\* runner.py:288-327: the rows, for stems inserted in the order ins
index_rows(ins, jsonl, html) ==
    LET sorted_entries ==
            SortedStable(ins, [x \in Range(ins), y \in Range(ins) |-> index_key_less(x, y)])
    IN [i \in 1..Len(sorted_entries) |-> index_row(sorted_entries[i], jsonl, html)]

\* the page is composed but index.html is left as it was
index_page_not_written(rows) ==
    [written |-> FALSE, placeholder |-> FALSE, rows |-> <<>>]

\* runner.py:328-337: the body of the page
index_page(rows) ==
    [written |-> TRUE, placeholder |-> rows = <<>>, rows |-> rows]

\* the runs are filed under the whole stem instead of the parsed dataset name
comparison_manifest_by_stem(ins, jsonl) ==
    LET runs_of(d) == SelectSeq(ins, LAMBDA st : st = d /\ jsonl[st] # None)
        run_entry(st) == [model |-> entry_meta(st).model,
                          passes |-> entry_meta(st).passes,
                          file |-> jsonl[st][1]]
    IN [d \in Range(ins) |->
          [i \in 1..Len(runs_of(d)) |-> run_entry(runs_of(d)[i])]]

\* runner.py:371-388: the manifest, for stems inserted in the order ins
comparison_manifest(ins, jsonl) ==
    LET names == {entry_meta(ins[i]).dataset : i \in 1..Len(ins)}
        runs_of(d) == SelectSeq(ins, LAMBDA st : entry_meta(st).dataset = d /\ jsonl[st] # None)
        run_entry(st) == [model |-> entry_meta(st).model,
                          passes |-> entry_meta(st).passes,
                          file |-> jsonl[st][1]]
    IN [d \in names |->
          LET sorted_runs ==
                 SortedStable(runs_of(d), [x \in Range(ins), y \in Range(ins) |-> run_key_less(x, y)])
          IN [i \in 1..Len(sorted_runs) |-> run_entry(sorted_runs[i])]]

\* int() of runner.py:295 raises for some entry
index_sort_raises(dir) ==
    \E st \in artifact_stems(dir) : PyInt(entry_meta(st).passes).raised # ""

---------------------------------------------------------------------------
(* Values shared by the specifications. *)

NoMeta == [dataset |-> <<>>, model |-> <<>>, passes |-> <<>>, prefix |-> <<>>]
NoRet == [fn |-> "", raised |-> "", config |-> None, prefix |-> <<>>, meta |-> NoMeta]
NoCall == [kind |-> "none"]
NoIndex == [written |-> FALSE, placeholder |-> FALSE, rows |-> <<>>]
NoComparison == [written |-> FALSE, manifest |-> <<>>]

---------------------------------------------------------------------------
(* runner.py: the steps of run_cli. *)

Line(kind, dataset, prefix) == [line |-> kind, dataset |-> dataset, prefix |-> prefix]
Event(kind, dataset) == [ev |-> kind, dataset |-> dataset]
Raise(fn, exc) == [NoRet EXCEPT !.fn = fn, !.raised = exc]

\* runner.py:637-641: one "key: title" line per available dataset
list_lines(argv) ==
    [i \in 1..Len(available(argv)) |-> Line("listed", available(argv)[i], None)]

\* run_cli from its call to the start of the loop (runner.py:577-664)
RunCliStart(argv) ==
    /\ call' = argv
    /\ invocations' = invocations + 1
    /\ idx' = 1
    /\ extract_calls' = <<>>
    /\ events' = <<>>
    /\ IF registry_exit(argv)
       THEN pc' = "raised" /\ ret' = Raise("run_cli", "SystemExit") /\ stdout' = <<>>
       ELSE IF unrecognized_arguments(argv)
       THEN pc' = "raised" /\ ret' = Raise("run_cli", "SystemExit(2)") /\ stdout' = <<>>
       ELSE IF argv.list_datasets
       THEN IF \E i \in 1..Len(available(argv)) : get_dataset(available(argv)[i]).raised # ""
            THEN pc' = "raised" /\ ret' = Raise("run_cli", "KeyError") /\ stdout' = <<>>
            ELSE pc' = "returned" /\ ret' = Raise("run_cli", "") /\ stdout' = list_lines(argv)
       ELSE IF dataset_args_mismatch(argv)
       THEN pc' = "raised" /\ ret' = Raise("run_cli", "SystemExit(2)") /\ stdout' = <<>>
       ELSE IF argv.input_file # None /\ FileContent(argv.input_file[1]) = None
       THEN pc' = "raised" /\ ret' = Raise("run_cli", "FileNotFoundError") /\ stdout' = <<>>
       ELSE pc' = "loop" /\ ret' = Raise("run_cli", "") /\ stdout' = <<>>
    /\ UNCHANGED <<dir_exists, files, index_html, comparison_html, history>>

\* the exception is caught and the run goes on to the index
extract_failure_swallowed == "index"

\* runner.py:46-52, 671-678: no try around lx.extract, in run_dataset or in
\* run_cli: where control is after lx.extract raises
extract_failure_pc == "raised"

\* one iteration of the loop up to the return of lx.extract
\* (runner.py:665-678 and 45-52); lx.extract returns a document or raises
RunDatasetExtract ==
    /\ pc = "loop"
    /\ LET dataset_key == dataset_keys(call)[idx]
           looked_up == get_dataset(dataset_key)
       IN IF looked_up.raised # ""
          THEN /\ pc' = "raised" /\ ret' = Raise("run_cli", looked_up.raised)
               /\ events' = Append(events, Event("lookup", dataset_key))
               /\ UNCHANGED <<extract_calls, stdout>>
          ELSE LET config == looked_up.value[1]
                   passes == extraction_passes_of(call, config)
               IN IF passes.raised # ""
                  THEN /\ pc' = "raised" /\ ret' = Raise("run_cli", passes.raised)
                       /\ events' = Append(events, Event("lookup", dataset_key))
                       /\ UNCHANGED <<extract_calls, stdout>>
                  ELSE /\ stdout' = Append(stdout, Line("running", dataset_key, None))
                       /\ events' = events \o <<Event("lookup", dataset_key),
                                                Event("extract", dataset_key)>>
                       /\ extract_calls' = Append(extract_calls,
                             [dataset |-> dataset_key,
                              model_id |-> model_id_of(call, config),
                              input_text |-> input_text_of(call, config),
                              extraction_passes |-> passes.value])
                       /\ \E extracted \in BOOLEAN :
                             IF extracted
                             THEN pc' = "extracted" /\ ret' = ret
                             ELSE /\ pc' = extract_failure_pc
                                  /\ ret' = Raise("run_cli", "ExtractError")
    /\ UNCHANGED <<call, dir_exists, files, index_html, comparison_html, idx,
                   history, invocations>>

\* save_artifacts (runner.py:18-33): both files, under the prefix
saved_files(dir, prefix, content) ==
    (FileName(prefix, ".jsonl") :> content) @@ (FileName(prefix, ".html") :> content) @@ dir

\* the rest of the iteration: summary, prefix, save_artifacts and the three
\* "Saved ..." lines (runner.py:53-59, 18-33, 679-682)
RunDatasetSave ==
    /\ pc = "extracted"
    /\ LET made == extract_calls[Len(extract_calls)]
           config == get_dataset(made.dataset).value[1]
           prefix == artifact_prefix(made.dataset, made.model_id, made.extraction_passes)
           triple == [dataset |-> made.dataset, model_id |-> made.model_id,
                      extraction_passes |-> made.extraction_passes]
           shown == IF multiple(call) THEN Some(made.dataset) ELSE None
       IN /\ stdout' = stdout \o
                <<Line(IF config.summary_fn # "" THEN config.summary_fn ELSE "processed",
                       made.dataset, None),
                  Line("saved_jsonl", made.dataset, shown),
                  Line("saved_html", made.dataset, shown),
                  Line("open_hint", made.dataset, shown)>>
          /\ events' = events \o <<Event("summary", made.dataset), Event("save", made.dataset)>>
          /\ dir_exists' = TRUE
          /\ files' = saved_files(files, prefix, [is_file |-> TRUE, by |-> Some(triple)])
          /\ history' = Append(history, [prefix |-> prefix, triple |-> triple,
                                         invocation |-> invocations])
    /\ idx' = idx + 1
    /\ pc' = IF idx < Len(dataset_keys(call)) THEN "loop" ELSE "index"
    /\ UNCHANGED <<call, ret, index_html, comparison_html, extract_calls, invocations>>

\* the ways the file system can list the artifacts of the directory: the
\* order in which the stems first appear, and for every stem the .jsonl and
\* the .html name that is yielded last (runner.py:266-286)
Listings(dir) ==
    [ins : Orders(artifact_stems(dir)),
     jsonl : name_choices(dir, ".jsonl"),
     html : name_choices(dir, ".html")]

\* _update_outputs_index (runner.py:260-363) with _ensure_comparison_viewer
\* (366-388), the directory being listed as listing: jsonl_viewer.html is
\* written before the directory is made
UpdateOutputsIndexListed(fn, listing) ==
    IF ~dir_exists
    THEN /\ pc' = "raised" /\ ret' = Raise(fn, "FileNotFoundError")
         /\ UNCHANGED <<files, index_html, comparison_html>>
    ELSE LET listed == (Page_jsonl_viewer :> PageContent) @@ files
         IN IF index_sort_raises(listed)
            THEN /\ pc' = "raised" /\ ret' = Raise(fn, "ValueError")
                 /\ files' = listed
                 /\ UNCHANGED <<index_html, comparison_html>>
            ELSE /\ pc' = "returned" /\ ret' = Raise(fn, "")
                 /\ index_html' =
                       index_page(index_rows(listing.ins, listing.jsonl, listing.html))
                 /\ comparison_html' =
                       [written |-> TRUE,
                        manifest |-> comparison_manifest(listing.ins, listing.jsonl)]
                 /\ files' = (Page_comparison :> PageContent)
                               @@ (Page_index :> PageContent) @@ listed

\* the directory is listed in an order the file system chooses
UpdateOutputsIndex(fn) ==
    \E listing \in Listings(files) : UpdateOutputsIndexListed(fn, listing)

\* runner.py:683
RunCliIndex ==
    /\ pc = "index"
    /\ UpdateOutputsIndex("run_cli")
    /\ events' = Append(events, Event("index", <<>>))
    /\ UNCHANGED <<call, dir_exists, idx, extract_calls, stdout, history, invocations>>

---------------------------------------------------------------------------
(* Spec: one run_cli invocation, any entry point, any command line. *)

CliKeys == {None} \cup {Some(k) : k \in DOMAIN DATASETS}
CliModelA == <<"a", "/", "b">>
CliModelB == <<"a", ":", "b">>
CliModels == {None, Some(<<>>), Some(CliModelA), Some(CliModelB)}
CliTexts == {None, Some(""), Some("inline text")}
CliFiles == {None, Some("empty.txt"), Some("note.txt"), Some("missing.txt")}
CliPasses == {None} \cup {Some(n) : n \in 0..MaxCliPasses}

Argv == [kind : {"cli"}, entry : Entries, dataset_key : CliKeys, dataset : CliKeys,
         model_id : CliModels, input_text : CliTexts, input_file : CliFiles,
         extraction_passes : CliPasses, list_datasets : BOOLEAN]

InitCli ==
    /\ pc = "idle"
    /\ call = NoCall
    /\ ret = NoRet
    /\ dir_exists = FALSE
    /\ files = <<>>
    /\ index_html = NoIndex
    /\ comparison_html = NoComparison
    /\ idx = 0
    /\ extract_calls = <<>>
    /\ stdout = <<>>
    /\ events = <<>>
    /\ history = <<>>
    /\ invocations = 0

RunCli == pc = "idle" /\ \E argv \in Argv : RunCliStart(argv)

Next == RunCli \/ RunDatasetExtract \/ RunDatasetSave \/ RunCliIndex

Spec == InitCli /\ [][Next]_vars

---------------------------------------------------------------------------
(* SpecRuns: successive run_cli invocations on one output directory. *)

RunsArgv == [kind : {"cli"}, entry : {"main"}, dataset_key : {None},
             dataset : {Some(Str_romeo_quickstart), Some(Str_medication_ner)},
             model_id : {None, Some(CliModelA), Some(CliModelB)},
             input_text : {None}, input_file : {None},
             extraction_passes : {Some(1), Some(2)}, list_datasets : {FALSE}]

\* the next invocation starts when the previous one has ended
RunCliAgain ==
    /\ pc \in {"idle", "returned", "raised"}
    /\ invocations < MaxInvocations
    /\ \E argv \in RunsArgv : RunCliStart(argv)

NextRuns == RunCliAgain \/ RunDatasetExtract \/ RunDatasetSave \/ RunCliIndex

SpecRuns == InitCli /\ [][NextRuns]_vars

---------------------------------------------------------------------------
(* SpecIndex: _update_outputs_index called on a directory found as it is. *)

Str_notes == <<"n","o","t","e","s">>
StemA == artifact_prefix(Str_x, <<"m">>, 2)
StemB == artifact_prefix(Str_x, <<"m">>, 10)
StemC == artifact_prefix(<<"y">>, <<"a","_","b">>, 1)
\* a stem whose pass part is not a number, and a stem without any separator
StemBadPass == Str_x \o Str_sep \o <<"m">> \o Str_sep \o Str_pass \o <<"q">>
StemPlain == Str_x
StemDir == artifact_prefix(<<"d">>, <<"m">>, 1)

OtherContent == [is_file |-> TRUE, by |-> None]
DirContent == [is_file |-> FALSE, by |-> None]

\* what the directory may hold before the call: name -> content
IndexUniverse ==
    (FileName(StemA, ".jsonl") :> OtherContent)
    @@ (FileName(StemA, ".html") :> OtherContent)
    @@ (FileName(StemA, ".HTML") :> OtherContent)
    @@ (FileName(StemA, ".JSONL") :> OtherContent)
    @@ (FileName(StemB, ".jsonl") :> OtherContent)
    @@ (FileName(StemB, ".html") :> OtherContent)
    @@ (FileName(StemC, ".jsonl") :> OtherContent)
    @@ (FileName(StemBadPass, ".jsonl") :> OtherContent)
    @@ (FileName(StemPlain, ".html") :> OtherContent)
    @@ (FileName(Str_notes, ".txt") :> OtherContent)
    @@ (FileName(StemDir, ".jsonl") :> DirContent)
    @@ (Page_index :> PageContent)
    @@ (Page_jsonl_viewer :> PageContent)
    @@ (Page_comparison :> PageContent)

\* the file system lists an unchanged directory in the same order every time
InitIndex ==
    /\ pc = "index_call"
    /\ ret = NoRet
    /\ dir_exists \in BOOLEAN
    /\ \E names \in SUBSET DOMAIN IndexUniverse :
          /\ Cardinality(names) <= MaxDirFiles
          /\ ~dir_exists => names = {}
          /\ files = [n \in names |-> IndexUniverse[n]]
    /\ \E listing \in Listings(files) : call = [kind |-> "index", listing |-> listing]
    /\ index_html = NoIndex
    /\ comparison_html = NoComparison
    /\ idx = 0
    /\ extract_calls = <<>>
    /\ stdout = <<>>
    /\ events = <<>>
    /\ history = <<>>
    /\ invocations = 0

\* the entries both listings hold come in the same order and with the same
\* names in both
same_listing(new, old) ==
    /\ SelectSeq(new.ins, LAMBDA st : st \in Range(old.ins))
          = SelectSeq(old.ins, LAMBDA st : st \in Range(new.ins))
    /\ \A st \in DOMAIN new.jsonl \cap DOMAIN old.jsonl :
          new.jsonl[st] = old.jsonl[st] /\ new.html[st] = old.html[st]

\* one rebuild, the first or a further one on the same directory; history
\* keeps what every completed rebuild wrote
IndexCall ==
    /\ pc \in {"index_call", "returned"}
    /\ invocations < MaxRebuilds
    /\ invocations' = invocations + 1
    /\ \E listing \in Listings(files) :
          /\ same_listing(listing, call.listing)
          /\ UpdateOutputsIndexListed("_update_outputs_index", listing)
          /\ call' = [call EXCEPT !.listing = listing]
    /\ history' = IF pc' = "returned"
                  THEN Append(history, [rows |-> index_html'.rows,
                                        manifest |-> comparison_html'.manifest])
                  ELSE history
    /\ UNCHANGED <<dir_exists, idx, extract_calls, stdout, events>>

NextIndex == IndexCall

SpecIndex == InitIndex /\ [][NextIndex]_vars

---------------------------------------------------------------------------
(* SpecPure: the pure functions called directly on enumerated inputs. *)

\* the model id of the documented example, "a/b:c"
ExampleModel == <<"a","/","b",":","c">>

PureAlphabet == {"a", "/", ":", "_"}
RECURSIVE SeqsUpTo(_, _)
SeqsUpTo(S, n) ==
    IF n = 0 THEN {<<>>}
    ELSE LET shorter == SeqsUpTo(S, n - 1)
         IN shorter \cup {Append(s, c) : s \in {t \in shorter : Len(t) = n - 1}, c \in S}

PureKeys == DOMAIN DATASETS \cup {Str_x, Str_unknown}
PureModels == SeqsUpTo(PureAlphabet, MaxModelLen) \cup {ExampleModel}
PurePasses == (0 - 1)..MaxPasses

InitPure ==
    /\ pc = "pure_start"
    /\ call \in [kind : {"pure"}, key : PureKeys, model_id : PureModels,
                 extraction_passes : PurePasses]
    /\ ret = NoRet
    /\ dir_exists = FALSE
    /\ files = <<>>
    /\ index_html = NoIndex
    /\ comparison_html = NoComparison
    /\ idx = 0
    /\ extract_calls = <<>>
    /\ stdout = <<>>
    /\ events = <<>>
    /\ history = <<>>
    /\ invocations = 0

\* datasets.get_dataset(key)
PureGetDataset ==
    /\ pc = "pure_start"
    /\ LET r == get_dataset(call.key)
       IN ret' = [NoRet EXCEPT !.fn = "get_dataset", !.raised = r.raised,
                               !.config = r.value]
    /\ pc' = "pure_looked_up"
    /\ UNCHANGED <<call, dir_exists, files, index_html, comparison_html, idx,
                   extract_calls, stdout, events, history, invocations>>

\* the prefix of run_dataset (runner.py:57-58)
PurePrefix ==
    /\ pc = "pure_looked_up"
    /\ ret' = [NoRet EXCEPT !.fn = "artifact_prefix",
                 !.prefix = artifact_prefix(call.key, call.model_id,
                                            call.extraction_passes)]
    /\ pc' = "pure_derived"
    /\ UNCHANGED <<call, dir_exists, files, index_html, comparison_html, idx,
                   extract_calls, stdout, events, history, invocations>>

\* _parse_artifact_metadata applied to the derived prefix
PureParse ==
    /\ pc = "pure_derived"
    /\ ret' = [ret EXCEPT !.fn = "_parse_artifact_metadata",
                 !.meta = _parse_artifact_metadata(ret.prefix)]
    /\ pc' = "pure_parsed"
    /\ UNCHANGED <<call, dir_exists, files, index_html, comparison_html, idx,
                   extract_calls, stdout, events, history, invocations>>

NextPure == PureGetDataset \/ PurePrefix \/ PureParse

SpecPure == InitPure /\ [][NextPure]_vars

---------------------------------------------------------------------------
(* SpecSummary: datasets._relationship_summary on enumerated results. *)

\* an extraction: its attributes are None, or a dict with or without the
\* medication_group key
Attrs_empty == <<>>
Attrs_group(name) == [medication_group |-> name]
SummaryAttributes ==
    {None, Some(Attrs_empty), Some(Attrs_group("")), Some(Attrs_group("A")),
     Some(Attrs_group("B"))}
SummaryExtractions ==
    [extraction_class : {"dosage"}, extraction_text : {"t1", "t2"},
     attributes : SummaryAttributes]

\* (extraction.attributes or {}).get("medication_group") (datasets.py:59)
group_name_of(extraction) ==
    LET attributes == IF extraction.attributes = None \/ extraction.attributes[1] = Attrs_empty
                      THEN Attrs_empty
                      ELSE extraction.attributes[1]
    IN IF "medication_group" \in DOMAIN attributes
       THEN Some(attributes.medication_group)
       ELSE None

\* only a missing attribute counts, an empty one is a group name
not_group_name_none_only(group_name) == group_name = None

\* "not group_name" (datasets.py:60)
not_group_name(group_name) == ~TruthyText(group_name)

\* datasets.py:57-63: the dict medication_groups in insertion order, after the
\* extractions from position i on have been filed; an extraction is its
\* position in result.extractions
RECURSIVE medication_groups(_, _, _)
medication_groups(result, i, groups) ==
    IF i > Len(result) THEN groups
    ELSE LET group_name == group_name_of(result[i])
         IN IF not_group_name(group_name)
            THEN medication_groups(result, i + 1, groups)
            ELSE LET at == {k \in 1..Len(groups) : groups[k].med_name = group_name[1]}
                 IN IF at = {}
                    THEN medication_groups(result, i + 1,
                            Append(groups, [med_name |-> group_name[1],
                                            extractions |-> <<i>>]))
                    ELSE medication_groups(result, i + 1,
                            [groups EXCEPT ![CHOOSE k \in at : TRUE].extractions =
                                               Append(@, i)])

SummaryLine(kind, text, extraction) ==
    [line |-> kind, text |-> text, extraction |-> extraction]

\* datasets.py:58-62: the warning lines, in the order of the extractions
warning_lines(result) ==
    LET missing == SelectSeq([i \in 1..Len(result) |-> i],
                             LAMBDA i : not_group_name(group_name_of(result[i])))
    IN [k \in 1..Len(missing) |->
          SummaryLine("warning", result[missing[k]].extraction_text, missing[k])]

\* datasets.py:65-71: for every group its header, then one line per extraction
RECURSIVE group_lines(_, _, _)
group_lines(result, groups, g) ==
    IF g > Len(groups) THEN <<>>
    ELSE <<SummaryLine("group", groups[g].med_name, 0)>>
         \o [k \in 1..Len(groups[g].extractions) |->
                SummaryLine("member",
                            result[groups[g].extractions[k]].extraction_text,
                            groups[g].extractions[k])]
         \o group_lines(result, groups, g + 1)

\* datasets.py:52-71: everything _relationship_summary prints
relationship_summary_lines(result) ==
    <<SummaryLine("input_text", "", 0), SummaryLine("extracted_medications", "", 0)>>
    \o warning_lines(result)
    \o group_lines(result, medication_groups(result, 1, <<>>), 1)

InitSummary ==
    /\ pc = "summary_call"
    /\ \E result \in SeqsUpTo(SummaryExtractions, MaxExtractions) :
          call = [kind |-> "summary", result |-> result]
    /\ ret = NoRet
    /\ dir_exists = FALSE
    /\ files = <<>>
    /\ index_html = NoIndex
    /\ comparison_html = NoComparison
    /\ idx = 0
    /\ extract_calls = <<>>
    /\ stdout = <<>>
    /\ events = <<>>
    /\ history = <<>>
    /\ invocations = 0

RelationshipSummary ==
    /\ pc = "summary_call"
    /\ stdout' = relationship_summary_lines(call.result)
    /\ ret' = Raise("_relationship_summary", "")
    /\ pc' = "summary_done"
    /\ UNCHANGED <<call, dir_exists, files, index_html, comparison_html, idx,
                   extract_calls, events, history, invocations>>

NextSummary == RelationshipSummary

SpecSummary == InitSummary /\ [][NextSummary]_vars

---------------------------------------------------------------------------
(* Claims settled under SpecPure. *)

\* C1: for every registered key get_dataset returns a config whose key field
\* is the lookup key; for every other key it raises KeyError and returns no
\* config.
C1_GetDataset ==
    ret.fn = "get_dataset" =>
        IF call.key \in {Str_romeo_quickstart, Str_medication_ner,
                         Str_medication_relationship}
        THEN /\ ret.raised = ""
             /\ ret.config # None
             /\ ret.config[1].key = call.key
        ELSE /\ ret.raised = "KeyError"
             /\ ret.config = None

C1_Witness ==
    /\ ret.fn = "get_dataset"
    /\ call.key = Str_medication_ner
    /\ ret.config # None

\* C2: the artifact prefix is the dataset key, "__", the model id with every
\* "/" and ":" replaced by "_", "__pass" and the decimal pass count, and
\* nothing else; ("x", "a/b:c", 2) gives "x__a_b_c__pass2".
C2_PrefixShape ==
    ret.fn = "artifact_prefix" =>
        LET k == call.key
            m == call.model_id
            p == ret.prefix
            lk == Len(k)
            lm == Len(m)
        IN /\ Len(p) = lk + 2 + lm + 6 + Len(IntToStr(call.extraction_passes))
           /\ \A i \in 1..lk : p[i] = k[i]
           /\ p[lk + 1] = "_" /\ p[lk + 2] = "_"
           /\ \A i \in 1..lm :
                p[lk + 2 + i] = IF m[i] \in {"/", ":"} THEN "_" ELSE m[i]
           /\ SubSeq(p, lk + lm + 3, lk + lm + 8) = <<"_","_","p","a","s","s">>
           /\ SubSeq(p, lk + lm + 9, Len(p)) = IntToStr(call.extraction_passes)
           /\ (k = Str_x /\ m = ExampleModel /\ call.extraction_passes = 2
                 => p = <<"x","_","_","a","_","b","_","c","_","_","p","a","s","s","2">>)

C2_Witness ==
    /\ ret.fn = "artifact_prefix"
    /\ call.key = Str_x /\ call.model_id = ExampleModel
    /\ call.extraction_passes = 2
    /\ ret.prefix = <<"x","_","_","a","_","b","_","c","_","_","p","a","s","s","2">>

\* C3: parsing the derived prefix recovers the dataset key, the pass count
\* and the model id with "/" and ":" replaced by "_", for every triple.
C3_RoundTrip ==
    ret.fn = "_parse_artifact_metadata" =>
        /\ ret.meta.dataset = call.key
        /\ ret.meta.passes = IntToStr(call.extraction_passes)
        /\ ret.meta.model = friendly_model(call.model_id)

---------------------------------------------------------------------------
(* Claims settled under SpecRuns. *)

\* C4: after any sequence of runs, the files of every run still hold what
\* that run wrote unless a run of the same (dataset key, model id, pass
\* count) triple rewrote them: the prefix is unique per triple.
C4_NoOverwriteByOtherTriple ==
    \A i \in 1..Len(history) :
        /\ files[FileName(history[i].prefix, ".jsonl")].by = Some(history[i].triple)
        /\ files[FileName(history[i].prefix, ".html")].by = Some(history[i].triple)
        /\ \A j \in 1..Len(history) :
              history[i].prefix = history[j].prefix => history[i].triple = history[j].triple

---------------------------------------------------------------------------
(* Claims settled under Spec. *)

Started == pc # "idle"
Ended == pc \in {"returned", "raised"}
\* the datasets whose loop iteration has begun
Looked == {events[i].dataset : i \in {j \in 1..Len(events) : events[j].ev = "lookup"}}
CallsFor(d) == {i \in 1..Len(extract_calls) : extract_calls[i].dataset = d}

\* C5: every dataset the loop takes up reaches the extraction call, with the
\* --extraction-passes value when one is given; without --extraction-passes
\* the call is still reached (with the dataset's default).
C5_PassesReachExtract ==
    Started =>
        \A d \in Looked :
            /\ CallsFor(d) # {}
            /\ call.extraction_passes # None =>
                  \A i \in CallsFor(d) :
                      extract_calls[i].extraction_passes = call.extraction_passes[1]

\* C6: the input text of every extraction call is the content of
\* --input-file when one is given, whatever it is; else the --input-text
\* value when given; else the dataset's default input text.
C6_InputTextPriority ==
    Started =>
        \A i \in 1..Len(extract_calls) :
            extract_calls[i].input_text =
                IF call.input_file # None THEN FileContent(call.input_file[1])[1]
                ELSE IF call.input_text # None THEN call.input_text[1]
                ELSE DATASETS[extract_calls[i].dataset].default_input_text

\* the part of an artifact prefix between the dataset key and "__pass"
PrefixModelPart(h) ==
    SubSeq(h.prefix, Len(h.triple.dataset) + 3,
           Len(h.prefix) - 6 - Len(IntToStr(h.triple.extraction_passes)))
Underscored(m) == [i \in 1..Len(m) |-> IF m[i] \in {"/", ":"} THEN "_" ELSE m[i]]

\* C7 as stated: the model id of every extraction call is the --model-id
\* value whenever --model-id is given.
C7_ModelIdWhenGiven ==
    Started =>
        \A i \in 1..Len(extract_calls) :
            extract_calls[i].model_id =
                IF call.model_id # None THEN call.model_id[1]
                ELSE DATASETS[extract_calls[i].dataset].default_model_id

\* C7, amended: the model id of every extraction call, and the one encoded
\* in the prefix of every artifact written, is the --model-id value when it
\* is given and not empty, and that dataset's default_model_id otherwise;
\* this holds for each dataset of the invocation.
C7_ModelIdResolved ==
    Started =>
        LET given == call.model_id # None /\ call.model_id[1] # <<>>
            want(d) == IF given THEN call.model_id[1] ELSE DATASETS[d].default_model_id
        IN /\ \A i \in 1..Len(extract_calls) :
                extract_calls[i].model_id = want(extract_calls[i].dataset)
           /\ \A i \in 1..Len(history) :
                PrefixModelPart(history[i]) = Underscored(want(history[i].triple.dataset))

C7_Witness ==
    /\ pc = "returned"
    /\ call.model_id = Some(CliModelA)
    /\ Len(extract_calls) = 3
    /\ \A i \in 1..3 : extract_calls[i].model_id = CliModelA
    /\ Len(history) = 3

BothGivenAndDiffer ==
    /\ call.dataset_key # None /\ call.dataset # None
    /\ call.dataset_key # call.dataset

\* C8 as stated: when the positional dataset and --dataset differ, run_cli
\* ends in an argument error, before any extraction call and any write.
C8_MismatchIsArgumentError ==
    (Started /\ BothGivenAndDiffer) =>
        /\ pc = "raised" /\ ret.raised = "SystemExit(2)"
        /\ extract_calls = <<>>
        /\ files = <<>>

\* C8, amended: when both are given, a dataset is run only if they are equal;
\* when they differ no extraction call is made and no file is written, and
\* run_cli ends in an argument error unless --list-datasets is given too (and
\* the entry point takes a dataset argument), in which case it prints the
\* list and returns.
C8_MismatchRunsNothing ==
    /\ (Started /\ call.dataset_key # None /\ call.dataset # None /\ events # <<>>)
          => call.dataset_key = call.dataset
    /\ (Started /\ BothGivenAndDiffer) =>
          /\ extract_calls = <<>>
          /\ events = <<>>
          /\ files = <<>> /\ ~dir_exists
          /\ ~index_html.written /\ ~comparison_html.written
          /\ IF call.list_datasets /\ call.entry = "main"
             THEN pc = "returned" /\ Len(stdout) = 3
             ELSE pc = "raised" /\ ret.raised = "SystemExit(2)" /\ stdout = <<>>

C8_Witness ==
    /\ pc = "raised" /\ ret.raised = "SystemExit(2)"
    /\ call.entry = "main"
    /\ call.dataset_key = Some(Str_medication_ner)
    /\ call.dataset = Some(Str_romeo_quickstart)
    /\ ~call.list_datasets

SavedLines == {i \in 1..Len(stdout) : stdout[i].line \in {"saved_jsonl", "saved_html", "open_hint"}}

\* C9: when no dataset is selected and several are available, an invocation
\* that gets past its arguments and whose extraction calls all return runs
\* every available dataset exactly once, in listing order, each saved-output
\* line prefixed with its "[dataset_key] "; a single dataset run prints the
\* lines without prefix.
C9_RunsAllInOrder ==
    (/\ Ended
     /\ ~call.list_datasets
     /\ ret.raised \notin {"SystemExit", "SystemExit(2)", "FileNotFoundError", "ExtractError"})
    =>
        /\ (call.entry = "main" /\ call.dataset_key = None /\ call.dataset = None) =>
              /\ [i \in 1..Len(extract_calls) |-> extract_calls[i].dataset]
                    = <<Str_romeo_quickstart, Str_medication_ner, Str_medication_relationship>>
              /\ Cardinality(SavedLines) = 9
              /\ \A i \in SavedLines : stdout[i].prefix = Some(stdout[i].dataset)
        /\ Len(extract_calls) = 1 => \A i \in SavedLines : stdout[i].prefix = None

---------------------------------------------------------------------------
(* Claims settled under SpecIndex. *)

HoldsNoArtifacts ==
    \A n \in DOMAIN files :
        \/ ~files[n].is_file
        \/ n.suffix \notin {".jsonl", ".html", ".JSONL", ".HTML"}
        \/ n \in {FileName(<<"i","n","d","e","x">>, ".html"),
                  FileName(<<"j","s","o","n","l","_","v","i","e","w","e","r">>, ".html"),
                  FileName(<<"c","o","m","p","a","r","i","s","o","n">>, ".html")}

\* C10: when the directory holds no .jsonl or .html file other than the three
\* generated pages, the index page written is the "No artifacts have been
\* generated yet." placeholder without rows and the manifest is empty.
C10_EmptyIndex ==
    (pc = "returned" /\ HoldsNoArtifacts) =>
        /\ index_html.written /\ index_html.placeholder
        /\ index_html.rows = <<>>
        /\ comparison_html.written
        /\ DOMAIN comparison_html.manifest = {}

C10_Witness ==
    /\ pc = "returned"
    /\ FileName(Str_notes, ".txt") \in DOMAIN files
    /\ FileName(StemDir, ".jsonl") \in DOMAIN files
    /\ HoldsNoArtifacts
    /\ index_html.placeholder

\* the .jsonl artifact files of the directory, and the run entries of the
\* manifest as <<dataset name, position>>
JsonlFiles ==
    {n \in DOMAIN files :
        /\ files[n].is_file
        /\ n \notin GeneratedPages
        /\ n.suffix \in {".jsonl", ".JSONL"}}

RunEntries ==
    UNION {{<<d, i>> : i \in 1..Len(comparison_html.manifest[d])} :
             d \in DOMAIN comparison_html.manifest}

RunAt(e) == comparison_html.manifest[e[1]][e[2]]

\* C11 as stated: every .jsonl artifact file has exactly one run entry
\* naming it, under the dataset name parsed from its name and with the parsed
\* pass count, and there are as many run entries as .jsonl artifact files.
C11_OneRunPerJsonlFile ==
    pc = "returned" =>
        /\ \A n \in JsonlFiles :
              /\ Cardinality({e \in RunEntries : RunAt(e).file = n}) = 1
              /\ \A e \in RunEntries :
                    RunAt(e).file = n =>
                       /\ e[1] = _parse_artifact_metadata(n.stem).dataset
                       /\ RunAt(e).passes = _parse_artifact_metadata(n.stem).passes
        /\ Cardinality(RunEntries) = Cardinality(JsonlFiles)

\* C11, amended: every stem that has a .jsonl artifact file has exactly one
\* run entry, naming one of the stem's .jsonl files, under the dataset name
\* parsed from the stem and with the parsed pass count, and there are as many
\* run entries as stems with a .jsonl artifact file.
C11_OneRunPerJsonlStem ==
    pc = "returned" =>
        /\ \A e \in RunEntries : RunAt(e).file \in JsonlFiles
        /\ \A st \in {n.stem : n \in JsonlFiles} :
              /\ Cardinality({e \in RunEntries : RunAt(e).file.stem = st}) = 1
              /\ \A e \in RunEntries :
                    RunAt(e).file.stem = st =>
                       /\ e[1] = _parse_artifact_metadata(st).dataset
                       /\ RunAt(e).passes = _parse_artifact_metadata(st).passes
        /\ Cardinality(RunEntries) = Cardinality({n.stem : n \in JsonlFiles})

C11_Witness ==
    /\ pc = "returned"
    /\ {FileName(StemA, ".jsonl"), FileName(StemA, ".JSONL"),
        FileName(StemB, ".jsonl")} \subseteq DOMAIN files
    /\ Cardinality(RunEntries) = 2
    /\ Len(comparison_html.manifest[Str_x]) = 2

---------------------------------------------------------------------------
(* Claims settled under SpecSummary. *)

HasGroup(i) ==
    LET a == call.result[i].attributes
    IN /\ a # None
       /\ "medication_group" \in DOMAIN a[1]
       /\ a[1].medication_group # ""

GroupOf(i) == call.result[i].attributes[1].medication_group

LinesOf(kind, i) ==
    {k \in 1..Len(stdout) : stdout[k].line = kind /\ stdout[k].extraction = i}

HeadersOf(name) ==
    {k \in 1..Len(stdout) : stdout[k].line = "group" /\ stdout[k].text = name}

\* the group header a line stands under
HeaderAbove(k) ==
    LET above == {h \in 1..k : stdout[h].line = "group"}
    IN CHOOSE h \in above : \A h2 \in above : h2 <= h

FirstOf(name) ==
    CHOOSE i \in 1..Len(call.result) :
        /\ HasGroup(i) /\ GroupOf(i) = name
        /\ \A j \in 1..(i - 1) : ~(HasGroup(j) /\ GroupOf(j) = name)

\* C12: _relationship_summary prints one warning line for every extraction
\* without a (non-empty) medication_group and lists it under no group; every
\* other extraction is listed exactly once, under the header of its own
\* group; inside a group the extractions, and among the groups the headers,
\* stand in the order of first appearance in the result.
C12_GroupsAndWarnings ==
    pc = "summary_done" =>
        LET n == Len(call.result)
            grouped == {i \in 1..n : HasGroup(i)}
        IN /\ \A i \in (1..n) \ grouped :
                 /\ Cardinality(LinesOf("warning", i)) = 1
                 /\ LinesOf("member", i) = {}
           /\ \A i \in grouped :
                 /\ LinesOf("warning", i) = {}
                 /\ Cardinality(LinesOf("member", i)) = 1
                 /\ \A k \in LinesOf("member", i) :
                       /\ \E h \in 1..k : stdout[h].line = "group"
                       /\ stdout[HeaderAbove(k)].text = GroupOf(i)
                 /\ Cardinality(HeadersOf(GroupOf(i))) = 1
           /\ \A k \in 1..Len(stdout) :
                 /\ stdout[k].line = "group" =>
                       \E i \in grouped : GroupOf(i) = stdout[k].text
                 /\ stdout[k].line \in {"warning", "member"} =>
                       stdout[k].extraction \in 1..n
                       /\ stdout[k].text = call.result[stdout[k].extraction].extraction_text
           /\ \A i, j \in grouped :
                 /\ (i < j /\ GroupOf(i) = GroupOf(j)) =>
                       \A ki \in LinesOf("member", i), kj \in LinesOf("member", j) : ki < kj
                 /\ (GroupOf(i) # GroupOf(j) /\ FirstOf(GroupOf(i)) < FirstOf(GroupOf(j))) =>
                       \A hi \in HeadersOf(GroupOf(i)), hj \in HeadersOf(GroupOf(j)) : hi < hj

\* group B, then an empty group name, then B again
C12_Witness ==
    /\ pc = "summary_done"
    /\ Len(call.result) = 3
    /\ call.result[1].attributes = Some(Attrs_group("B"))
    /\ call.result[2].attributes = Some(Attrs_group(""))
    /\ call.result[3].attributes = Some(Attrs_group("B"))
    /\ Cardinality(LinesOf("warning", 2)) = 1
    /\ Cardinality(HeadersOf("B")) = 1

---------------------------------------------------------------------------
(* Claims settled under Spec, on the rebuild of the index. *)

\* the stems of the artifact files in the directory
StemsInDirectory == {n.stem : n \in DOMAIN files \ GeneratedPages}

PagesRewritten ==
    /\ index_html.written
    /\ comparison_html.written
    /\ GeneratedPages \subseteq DOMAIN files
    /\ Len(index_html.rows) = Cardinality(StemsInDirectory)
    /\ \A st \in StemsInDirectory :
          \E i \in 1..Len(index_html.rows) :
             /\ index_html.rows[i].jsonl = Some(FileName(st, ".jsonl"))
             /\ index_html.rows[i].html = Some(FileName(st, ".html"))

\* C13 as stated: every invocation of run_cli that returns normally has
\* rewritten index.html, jsonl_viewer.html and comparison.html in full,
\* whichever flags were given.
C13_ReturnRewritesPages ==
    (Started /\ pc = "returned") => PagesRewritten

\* C13, amended: an invocation that returns normally without --list-datasets
\* has rewritten the three pages in full and its last step was the rebuild;
\* one with --list-datasets returns having written none of them.
C13_RunRewritesPages ==
    (Started /\ pc = "returned") =>
        IF call.list_datasets
        THEN /\ ~index_html.written /\ ~comparison_html.written
             /\ files = <<>>
             /\ events = <<>>
        ELSE /\ PagesRewritten
             /\ events # <<>> /\ events[Len(events)].ev = "index"

C13_Witness ==
    /\ pc = "returned"
    /\ ~call.list_datasets
    /\ Len(dataset_keys(call)) = 3
    /\ Len(index_html.rows) = 3
    /\ PagesRewritten

---------------------------------------------------------------------------
(* Claims settled under SpecIndex, on the order of rows and runs. *)

PassesAsInt(r) == PyInt(r.passes).value

ModelPassesAscend(r1, r2) ==
    \/ StrLess(r1.model, r2.model)
    \/ r1.model = r2.model /\ PassesAsInt(r1) <= PassesAsInt(r2)

\* C14: the rows of the index page ascend by (dataset, model, pass count as
\* an integer) and the runs of every dataset of the manifest ascend by
\* (model, pass count as an integer): pass 2 stands before pass 10.
C14_SortedByIntegerPasses ==
    pc = "returned" =>
        /\ \A i \in 1..(Len(index_html.rows) - 1) :
              LET r1 == index_html.rows[i]
                  r2 == index_html.rows[i + 1]
              IN \/ StrLess(r1.dataset, r2.dataset)
                 \/ r1.dataset = r2.dataset /\ ModelPassesAscend(r1, r2)
        /\ \A d \in DOMAIN comparison_html.manifest :
              \A i \in 1..(Len(comparison_html.manifest[d]) - 1) :
                 ModelPassesAscend(comparison_html.manifest[d][i],
                                   comparison_html.manifest[d][i + 1])

\* pass 10 is listed before pass 2 and before another dataset, and sorted after
C14_Witness ==
    /\ pc = "returned"
    /\ call.listing.ins = <<StemC, StemB, StemA>>
    /\ Len(index_html.rows) = 3
    /\ index_html.rows[1].passes = <<"2">>
    /\ index_html.rows[2].passes = <<"1", "0">>
    /\ index_html.rows[3].dataset = <<"y">>
    /\ Len(comparison_html.manifest[Str_x]) = 2
    /\ comparison_html.manifest[Str_x][1].passes = <<"2">>
    /\ comparison_html.manifest[Str_x][2].passes = <<"1", "0">>

---------------------------------------------------------------------------
(* Claims settled under Spec, on the order of the steps. *)

StepNames == <<"lookup", "extract", "summary", "save">>

\* the steps of an invocation that runs every selected dataset
ExpectedEvents ==
    LET keys == dataset_keys(call)
    IN [k \in 1..(4 * Len(keys) + 1) |->
          IF k = 4 * Len(keys) + 1
          THEN Event("index", <<>>)
          ELSE Event(StepNames[((k - 1) % 4) + 1], keys[((k - 1) \div 4) + 1])]

SummaryLineBeforeSaved(d) ==
    \E i, j \in 1..Len(stdout) :
        /\ i < j
        /\ stdout[i].dataset = d
        /\ stdout[i].line = (IF DATASETS[d].summary_fn # ""
                              THEN DATASETS[d].summary_fn ELSE "processed")
        /\ stdout[j].dataset = d /\ stdout[j].line = "saved_jsonl"

\* C15: the steps of one invocation are, dataset after dataset, lookup,
\* extraction, summary (the dataset's own, else the generic message) and
\* artifact write, and then one rebuild of the index, which comes after the
\* artifacts of every selected dataset and lists all of them.
C15_StepOrder ==
    (Started /\ events # <<>>) =>
        /\ Len(events) <= Len(ExpectedEvents)
        /\ \A k \in 1..Len(events) : events[k] = ExpectedEvents[k]
        /\ \A k \in 1..Len(events) :
              events[k].ev = "save" =>
                 /\ SummaryLineBeforeSaved(events[k].dataset)
                 /\ \E h \in 1..Len(history) :
                       /\ history[h].triple.dataset = events[k].dataset
                       /\ {FileName(history[h].prefix, ".jsonl"),
                           FileName(history[h].prefix, ".html")} \subseteq DOMAIN files
        /\ index_html.written =>
              /\ Len(events) = Len(ExpectedEvents)
              /\ \A h \in 1..Len(history) :
                    \E i \in 1..Len(index_html.rows) :
                       /\ index_html.rows[i].jsonl = Some(FileName(history[h].prefix, ".jsonl"))
                       /\ index_html.rows[i].html = Some(FileName(history[h].prefix, ".html"))
        /\ (pc = "returned") => index_html.written

C15_Witness ==
    /\ pc = "returned"
    /\ Len(dataset_keys(call)) = 3
    /\ Len(events) = 13
    /\ events[13].ev = "index"
    /\ events[12] = Event("save", Str_medication_relationship)
    /\ Len(history) = 3

---------------------------------------------------------------------------
(* Claims settled under Spec, on a failing extraction. *)

ExtractEventsFor(d) ==
    {k \in 1..Len(events) : events[k] = Event("extract", d)}

\* C16: lx.extract is called at most once for a dataset in one invocation;
\* when it raises, run_cli ends with that exception: nothing is printed or
\* written for the dataset after the call, no later dataset is taken up, no
\* page of the index is written, and no further step follows.
C16_FailureStopsTheRun ==
    Started =>
        /\ \A d \in DOMAIN DATASETS :
              /\ Cardinality(CallsFor(d)) <= 1
              /\ Cardinality(ExtractEventsFor(d)) <= 1
        /\ ret.raised = "ExtractError" =>
              LET d == extract_calls[Len(extract_calls)].dataset
              IN /\ pc = "raised"
                 /\ ret.fn = "run_cli"
                 /\ events[Len(events)] = Event("extract", d)
                 /\ stdout[Len(stdout)] = Line("running", d, None)
                 /\ \A h \in 1..Len(history) : history[h].triple.dataset # d
                 /\ \A n \in DOMAIN files :
                       files[n].by # None /\ files[n].by[1].dataset # d
                 /\ Len(extract_calls) = Len(history) + 1
                 /\ ~index_html.written /\ ~comparison_html.written
                 /\ ~ENABLED Next

\* the second dataset fails after the first was saved
C16_Witness ==
    /\ pc = "raised"
    /\ ret.raised = "ExtractError"
    /\ Len(dataset_keys(call)) = 3
    /\ Len(extract_calls) = 2
    /\ Len(history) = 1
    /\ Cardinality(DOMAIN files) = 2

---------------------------------------------------------------------------
(* Claims settled under SpecIndex, on the stems that are listed. *)

HtmlFiles ==
    {n \in DOMAIN files :
        /\ files[n].is_file
        /\ n \notin GeneratedPages
        /\ n.suffix \in {".html", ".HTML"}}

HasJsonl(st) == \E n \in JsonlFiles : n.stem = st
HasHtml(st) == \E n \in HtmlFiles : n.stem = st

RowStem(r) == IF r.jsonl # None THEN r.jsonl[1].stem ELSE r.html[1].stem

RowsOf(st) == {i \in 1..Len(index_html.rows) : RowStem(index_html.rows[i]) = st}

\* C17 as stated: a stem has a row of the index page, and its dataset a key
\* of the manifest, only if both a .jsonl and a .html file of that stem exist.
C17_OnlyPairedStems ==
    pc = "returned" =>
        /\ \A i \in 1..Len(index_html.rows) :
              /\ HasJsonl(RowStem(index_html.rows[i]))
              /\ HasHtml(RowStem(index_html.rows[i]))
        /\ \A d \in DOMAIN comparison_html.manifest :
              \E n \in JsonlFiles :
                 /\ HasHtml(n.stem)
                 /\ _parse_artifact_metadata(n.stem).dataset = d

\* C17, amended: every stem with a .jsonl or a .html artifact file has exactly
\* one row, whose cell for a missing file is empty, and its parsed dataset
\* name is a key of the manifest; no other row or key exists, and only a stem
\* with a .jsonl file has a run entry.
C17_EveryStemListed ==
    pc = "returned" =>
        LET stems == {n.stem : n \in JsonlFiles \cup HtmlFiles}
        IN /\ Len(index_html.rows) = Cardinality(stems)
           /\ \A st \in stems :
                 /\ Cardinality(RowsOf(st)) = 1
                 /\ \A i \in RowsOf(st) :
                       /\ (index_html.rows[i].jsonl = None) <=> ~HasJsonl(st)
                       /\ (index_html.rows[i].html = None) <=> ~HasHtml(st)
                       /\ index_html.rows[i].jsonl # None =>
                             index_html.rows[i].jsonl[1] \in JsonlFiles
                       /\ index_html.rows[i].html # None =>
                             /\ index_html.rows[i].html[1] \in HtmlFiles
                             /\ index_html.rows[i].html[1].stem = st
           /\ DOMAIN comparison_html.manifest =
                 {_parse_artifact_metadata(st).dataset : st \in stems}
           /\ \A e \in RunEntries : HasJsonl(RunAt(e).file.stem)

\* a stem with only a .html file and a stem with only a .jsonl file
C17_Witness ==
    /\ pc = "returned"
    /\ JsonlFiles = {FileName(StemC, ".jsonl")}
    /\ HtmlFiles = {FileName(StemPlain, ".html")}
    /\ Len(index_html.rows) = 2
    /\ DOMAIN comparison_html.manifest = {Str_x, <<"y">>}
    /\ comparison_html.manifest[Str_x] = <<>>

---------------------------------------------------------------------------
(* Claims settled under SpecIndex, on the pass count of a stem. *)

IsDecimalString(p) ==
    /\ p # <<>>
    /\ \A i \in 1..Len(p) : p[i] \in {"0", "1", "2", "3", "4", "5", "6", "7", "8", "9"}

\* C18: for every stem of the directory _parse_artifact_metadata gives a
\* 'passes' that is a non-empty string of decimal digits, and a rebuild of the
\* index of an existing directory completes whatever .jsonl and .html files
\* it holds.
C18_PassesAreDigits ==
    (pc # "index_call" /\ dir_exists) =>
        /\ \A n \in JsonlFiles \cup HtmlFiles :
              IsDecimalString(_parse_artifact_metadata(n.stem).passes)
        /\ pc = "returned"
        /\ index_html.written

---------------------------------------------------------------------------
(* Claims settled under SpecIndex, on successive rebuilds. *)

RowNames(r) ==
    (IF r.jsonl # None THEN {r.jsonl[1]} ELSE {})
        \cup (IF r.html # None THEN {r.html[1]} ELSE {})

\* C19: whatever number of rebuilds a directory has gone through, no row of
\* the index page and no run of the manifest is one of index.html,
\* jsonl_viewer.html and comparison.html, the rows are those of the other
\* .jsonl and .html files, and every rebuild wrote the same set of rows.
C19_PagesAreNotArtifacts ==
    /\ pc = "returned" => Len(history) = invocations
    /\ \A h \in 1..Len(history) :
          /\ \A i \in 1..Len(history[h].rows) :
                /\ RowNames(history[h].rows[i]) \cap GeneratedPages = {}
                /\ RowStem(history[h].rows[i]) \notin {p.stem : p \in GeneratedPages}
          /\ \A d \in DOMAIN history[h].manifest :
                \A i \in 1..Len(history[h].manifest[d]) :
                   history[h].manifest[d][i].file \notin GeneratedPages
          /\ {RowStem(history[h].rows[i]) : i \in 1..Len(history[h].rows)}
                = {n.stem : n \in JsonlFiles \cup HtmlFiles}
          /\ Range(history[h].rows) = Range(history[1].rows)

\* three rebuilds of a directory of two artifacts
C19_Witness ==
    /\ pc = "returned"
    /\ Len(history) = 3
    /\ GeneratedPages \subseteq DOMAIN files
    /\ Len(history[3].rows) = 2
    /\ history[3].rows = history[1].rows

====
